---- MODULE Spec2Model ----
(***************************************************************************)
(* Construction-site safety pipeline: risk assessment (agents/risk.py),    *)
(* regulation retrieval (agents/rag.py), object detection                   *)
(* (agents/vision.py), alerting (agents/alert.py) and the stage graph       *)
(* (graph.py).                                                              *)
(*                                                                          *)
(* Conventions.  A confidence is an integer number of hundredths (0.91 is   *)
(* 91).  A text is a run-length encoded string, a sequence of runs          *)
(* [c |-> character, n |-> repetitions] with adjacent runs of different     *)
(* characters, so that equal strings are equal values and text[:k] is an    *)
(* exact truncation.  A Python exception is a result record whose "raised"  *)
(* field is TRUE.  A JSON value is a record [t, i, s]: t is "int", "str",   *)
(* "null" or "missing" (the key is absent from its object).                 *)
(***************************************************************************)
EXTENDS Integers, Sequences, FiniteSets, TLC

VARIABLES
    \* --- the run state of graph.py (GraphState) and the orchestrator's position
    pc,               \* stage about to run, "END", or "failed"
    error,            \* the exception that left workflow.invoke, "" if none
    frames,           \* GraphState.frames
    detections,       \* GraphState.detections; also assess's / retrieve's argument
    regulations,      \* GraphState.regulations; also assess's argument
    risk_assessment,  \* GraphState.risk_assessment
    final_report,     \* GraphState.final_report
    alerts_sent,      \* GraphState.alerts_sent
    \* --- one RiskAssessor.assess call
    riskResult,       \* [raised, value, path] of the last assess call
    requests,         \* the contexts sent to model.invoke_json, in call order
    responses,        \* what the scoring model answered, in call order
    \* --- one RAGRetriever.retrieve_regulations call
    ragpc,            \* "call" | "loop" | "returned" | "raised" (_search raised)
    idx,              \* index in context of the detection the loop is at
    regulations_dict, \* insertion-ordered dict: sequence of [key, reg]
    query_cache,      \* dict query_text -> points, as a sequence of [query, points]
    searchLog,        \* the _search calls made, in order
    ragResult,        \* the list the call returned
    \* --- what an observer of the run sees
    stageLog,         \* the stages' starts and ends, in order of occurrence
    raw_preds,        \* per frame, the raw predictions the Roboflow call returned
    alertResult,      \* the last run_alert_agent call: its dependencies and its result
    \* --- one call of get_priority and build_query on a label
    labelResult,      \* [called, priority, query]
    video,            \* what ffprobe and ffmpeg did with the file at video_path
    vision_log,       \* per frame: what the detectors did, and whether the fallback ran
    \* --- retrieve_regulations calls that share one RAGRetriever
    calls,            \* per call: its argument, its position and its locals
    \* --- BedrockModel.get_instance called from several threads
    _instance,        \* BedrockModel._instance: 0 is None, n > 0 the n-th object made
    constructed,      \* number of BedrockModel objects constructed so far
    caller            \* per thread: its position in get_instance, its object, its result

vars == <<pc, error, frames, detections, regulations, risk_assessment, final_report,
          alerts_sent, riskResult, requests, responses, ragpc, idx,
          regulations_dict, query_cache, searchLog, ragResult,
          stageLog, raw_preds, alertResult, labelResult,
          video, vision_log, calls, _instance, constructed, caller>>

singletonVars == <<_instance, constructed, caller>>
otherVars == <<video, vision_log, calls, _instance, constructed, caller>>

riskVars  == <<riskResult, requests, responses>>
ragVars   == <<ragpc, idx, regulations_dict, query_cache, searchLog, ragResult>>

(***************************************************************************)
(* Bounds of the model.                                                    *)
(***************************************************************************)
MaxDet == 2        \* longest enumerated detection list (longer ones are named scenarios)

(***************************************************************************)
(* Generic helpers.                                                        *)
(***************************************************************************)
Min(a, b) == IF a <= b THEN a ELSE b

BoundedSeq(S, n) == UNION {[1..k -> S] : k \in 0..n}

\* Run-length encoded text: n copies of character c.
Run(c, n) == [c |-> c, n |-> n]

\* Python's text[:k] on a run-length encoded text.
RECURSIVE Prefix(_, _)
Prefix(text, k) ==
    IF k <= 0 \/ text = <<>> THEN <<>>
    ELSE LET h == Head(text)
         IN IF h.n >= k THEN <<Run(h.c, k)>>
            ELSE <<h>> \o Prefix(Tail(text), k - h.n)

\* [f(x) for x in xs]
RECURSIVE MapLabels(_)
MapLabels(ds) == IF ds = <<>> THEN <<>> ELSE <<Head(ds).label>> \o MapLabels(Tail(ds))

(***************************************************************************)
(* schemas.py                                                              *)
(***************************************************************************)
AlertLevels == {"LOW", "MEDIUM", "HIGH", "CRITICAL"}

Detection(label, confidence) == [label |-> label, confidence |-> confidence]

Regulation(citation, text, source) == [citation |-> citation, text |-> text, source |-> source]

\* JSON values as the scoring model may return them.
JInt(i)  == [t |-> "int", i |-> i, s |-> ""]
JStr(s)  == [t |-> "str", i |-> 0, s |-> s]
JNull    == [t |-> "null", i |-> 0, s |-> ""]
JMissing == [t |-> "missing", i |-> 0, s |-> ""]

\* Decimal strings that occur in the model's answers, with their values.
DecimalStrings == ("75" :> 75) @@ ("150" :> 150)

\* pydantic's validation of an int field: an int, or a string that reads as one.
IntCoercible(v) == v.t = "int" \/ (v.t = "str" /\ v.s \in DOMAIN DecimalStrings)
IntValue(v) == IF v.t = "int" THEN v.i ELSE DecimalStrings[v.s]

\* AlertLevel(x): the enum member whose value is x, ValueError otherwise.
AlertLevelValid_Any(v) == TRUE
AlertLevelValid(v) == v.t = "str" /\ v.s \in AlertLevels

\* Field(..., ge=0, le=100) on RiskAssessment.risk_score.
RiskScoreInRange_Unchecked(score) == TRUE
RiskScoreInRange(score) == 0 <= score /\ score <= 100

\* RiskAssessment(risk_score=, alert_level=, violations=, equipment_context=).
\* The model's fields are risk_score, alert_level, violations and
\* equipment_contex; a keyword that names no field (equipment_context) is
\* ignored by pydantic, so equipment_contex keeps its default [].
\* score is a JSON value, level a valid AlertLevel value.
RiskAssessment(score, level, violations, equipment_context) ==
    IF IntCoercible(score) /\ RiskScoreInRange(IntValue(score))
    THEN [raised |-> FALSE,
          value  |-> [risk_score |-> IntValue(score), alert_level |-> level,
                      violations |-> violations, equipment_contex |-> <<>>]]
    ELSE [raised |-> TRUE,
          value  |-> [risk_score |-> 0, alert_level |-> "LOW",
                      violations |-> <<>>, equipment_contex |-> <<>>]]

\* Violation(type=, confidence=, severity=, timestamp_start=0.0, timestamp_end=0.0)
Violation(type, confidence, severity) ==
    [type |-> type, confidence |-> confidence, duration_seconds |-> 0,
     severity |-> severity, timestamp_start |-> 0, timestamp_end |-> 0]

(***************************************************************************)
(* agents/risk.py                                                          *)
(***************************************************************************)
VIOLATION_LABELS == {"NO-Hardhat", "NO-Mask", "NO-Safety Vest"}
MACHINERY_LABELS == {"Excavator", "Wheel Loader", "Machinery", "Dump Truck", "machinery"}

IsViolation(d) == d.label \in VIOLATION_LABELS
IsMachinery(d) == d.label \in MACHINERY_LABELS
IsPerson(d)    == d.label = "Person"

\* The context object assess sends to the scoring model.
RECURSIVE RegulationContext(_)
RegulationContext(regs) ==
    IF regs = <<>> THEN <<>>
    ELSE <<[citation |-> Head(regs).citation, text |-> Prefix(Head(regs).text, 300)]>>
         \o RegulationContext(Tail(regs))

BuildContext(violations_found, equipment_present, people_count, regs) ==
    [violations           |-> violations_found,
     heavy_equipment      |-> MapLabels(equipment_present),
     people_nearby        |-> people_count,
     relevant_regulations |-> RegulationContext(regs)]

\* One entry of data["violations"] turned into a Violation; raised when the
\* entry has no type or severity, or a value pydantic or AlertLevel rejects.
ViolationEntryOk(v) ==
    /\ v.type.t = "str"
    /\ v.confidence.t \in {"int", "missing"}
    /\ AlertLevelValid(v.severity)

ParseViolation(v) ==
    Violation(v.type.s, IF v.confidence.t = "missing" THEN 0 ELSE v.confidence.i,
              v.severity.s)

RECURSIVE ParseViolations(_)
ParseViolations(items) ==
    IF items = <<>> THEN <<>>
    ELSE <<ParseViolation(Head(items))>> \o ParseViolations(Tail(items))

Raised(dummy) == [raised |-> TRUE, value |-> dummy]

ZeroAssessment ==
    [risk_score |-> 0, alert_level |-> "LOW", violations |-> <<>>, equipment_contex |-> <<>>]

\* RiskAssessor._parse_response
_parse_response(data, violations_found, equipment_present) ==
    LET vs == data.violations
        items == IF vs.t = "missing" THEN <<>> ELSE vs.items
    IN IF data.kind # "object" THEN Raised(ZeroAssessment)           \* no .get / no key lookup
       ELSE IF vs.t = "null" THEN Raised(ZeroAssessment)             \* iterating None
       ELSE IF \E i \in DOMAIN items : ~ViolationEntryOk(items[i]) THEN Raised(ZeroAssessment)
       ELSE IF data.risk_score.t = "missing" THEN Raised(ZeroAssessment)   \* KeyError
       ELSE IF ~AlertLevelValid(data.alert_level) THEN Raised(ZeroAssessment)
       ELSE RiskAssessment(data.risk_score, data.alert_level.s,
                           ParseViolations(items), MapLabels(equipment_present))

\* The level the fallback gives a score.
FallbackLevel_Strict(score) ==
    IF score > 75 THEN "CRITICAL" ELSE IF score > 50 THEN "HIGH"
    ELSE IF score > 25 THEN "MEDIUM" ELSE "LOW"
FallbackLevel(score) ==
    IF score >= 75 THEN "CRITICAL" ELSE IF score >= 50 THEN "HIGH"
    ELSE IF score >= 25 THEN "MEDIUM" ELSE "LOW"

\* score = min(len(violations_found) * 25, 100)
FallbackScore_NoCap(violations_found) == Len(violations_found) * 25
FallbackScore(violations_found) == Min(Len(violations_found) * 25, 100)

\* RiskAssessor._rule_based_fallback
_rule_based_fallback_Banded(violations_found, equipment_present) ==
    LET score == Min(Len(violations_found) * 25
                     + (IF violations_found # <<>> /\ equipment_present # <<>> THEN 35 ELSE 5),
                     100)
    IN RiskAssessment(JInt(score), FallbackLevel(score), <<>>, MapLabels(equipment_present))
_rule_based_fallback(violations_found, equipment_present) ==
    LET score == FallbackScore(violations_found)
    IN RiskAssessment(JInt(score), FallbackLevel(score), <<>>, MapLabels(equipment_present))

\* RiskAssessor.assess from line 41 on: detections is not empty.  outcome is
\* what model.invoke_json does on this call.
AssessNonEmpty(dets, regs, outcome) ==
    LET violations_found  == SelectSeq(dets, IsViolation)
        equipment_present == SelectSeq(dets, IsMachinery)
        people_count      == Len(SelectSeq(dets, IsPerson))
        context == BuildContext(violations_found, equipment_present, people_count, regs)
        parsed  == IF outcome.kind \in {"unreachable", "nonjson"}
                   THEN Raised(ZeroAssessment)      \* invoke_json raised
                   ELSE _parse_response(outcome, violations_found, equipment_present)
        fb      == _rule_based_fallback(violations_found, equipment_present)
    IN IF parsed.raised
       THEN [raised |-> fb.raised, value |-> fb.value, path |-> "fallback",
             requests |-> <<context>>, responses |-> <<outcome>>]
       ELSE [raised |-> FALSE, value |-> parsed.value, path |-> "model",
             requests |-> <<context>>, responses |-> <<outcome>>]

\* RiskAssessor.assess
assess_NoShortCircuit(dets, regs, outcome) == AssessNonEmpty(dets, regs, outcome)
assess(dets, regs, outcome) ==
    IF dets = <<>>
    THEN [raised |-> FALSE, value |-> RiskAssessment(JInt(0), "LOW", <<>>, <<>>).value,
          path |-> "empty", requests |-> <<>>, responses |-> <<>>]
    ELSE AssessNonEmpty(dets, regs, outcome)

(***************************************************************************)
(* agents/rag.py                                                           *)
(***************************************************************************)
SAFETY_QUERY_MAP ==
    [label \in {"NO-Hardhat", "NO-Mask", "NO-Safety Vest", "Hardhat", "Mask",
                "Safety Vest", "Gloves", "Person", "Excavator", "Wheel Loader",
                "Machinery", "Dump Truck", "Truck", "Truck and Trailer", "Trailer",
                "Semi", "SUV", "Van", "Mini-Van", "Sedan", "Bus", "Vehicle",
                "Safety Cone", "Ladder", "Fire Hydrant"} |->
       CASE label = "NO-Hardhat"        -> "hard hat head protection requirement construction site"
         [] label = "NO-Mask"           -> "respiratory protection mask requirement airborne contaminants"
         [] label = "NO-Safety Vest"    -> "high visibility safety vest apparel requirement flagger"
         [] label = "Hardhat"           -> "hard hat head protection compliance standard"
         [] label = "Mask"              -> "respiratory protection mask compliance"
         [] label = "Safety Vest"       -> "high visibility safety apparel compliance"
         [] label = "Gloves"            -> "hand protection gloves requirement construction"
         [] label = "Person"            -> "worker safety requirement construction site general"
         [] label = "Excavator"         -> "excavator heavy equipment operator safety clearance zone"
         [] label = "Wheel Loader"      -> "wheel loader heavy machinery operator safety requirement"
         [] label = "Machinery"         -> "machinery equipment safety requirement construction"
         [] label = "Dump Truck"        -> "dump truck vehicle safety construction site"
         [] label = "Truck"             -> "truck vehicle safety construction site"
         [] label = "Truck and Trailer" -> "truck trailer vehicle safety construction site"
         [] label = "Trailer"           -> "trailer vehicle safety requirement"
         [] label = "Semi"              -> "semi truck heavy vehicle safety requirement"
         [] label = "SUV"               -> "vehicle traffic control construction zone safety"
         [] label = "Van"               -> "van vehicle traffic control construction zone"
         [] label = "Mini-Van"          -> "vehicle traffic control construction zone safety"
         [] label = "Sedan"             -> "vehicle traffic control construction zone safety"
         [] label = "Bus"               -> "bus vehicle traffic control construction zone"
         [] label = "Vehicle"           -> "vehicle traffic control construction zone safety"
         [] label = "Safety Cone"       -> "traffic cone safety barrier construction zone requirement"
         [] label = "Ladder"            -> "ladder safety requirement portable climbing construction"
         [] label = "Fire Hydrant"      -> "fire hydrant clearance requirement obstruction"]

RAG_VIOLATION_LABELS == {"NO-Hardhat", "NO-Mask", "NO-Safety Vest"}

\* The dict in its iteration order.
PRIORITY_MAP ==
    << [level |-> "HIGH",   labels |-> {"NO-Hardhat", "NO-Mask", "NO-Safety Vest"}],
       [level |-> "MEDIUM", labels |-> {"Excavator", "Wheel Loader", "Machinery",
                                        "Dump Truck", "Ladder"}],
       [level |-> "LOW",    labels |-> {"Person", "Safety Cone", "SUV", "Van", "Sedan",
                                        "Bus", "Truck", "Semi", "Trailer",
                                        "Truck and Trailer", "Mini-Van", "Vehicle",
                                        "Fire Hydrant", "Hardhat", "Mask", "Safety Vest",
                                        "Gloves"}] >>

RETRIEVAL_LIMITS == ("HIGH" :> 5) @@ ("MEDIUM" :> 3) @@ ("LOW" :> 1)
CONFIDENCE_THRESHOLD == 50
SCORE_THRESHOLD == 60
DEDUP_PREFIX == 200

get_priority_DefaultMedium(label) ==
    LET hits == {i \in DOMAIN PRIORITY_MAP : label \in PRIORITY_MAP[i].labels}
    IN IF hits = {} THEN "MEDIUM"
       ELSE PRIORITY_MAP[CHOOSE i \in hits : \A j \in hits : i <= j].level
get_priority_NoDefault(label) ==
    LET hits == {i \in DOMAIN PRIORITY_MAP : label \in PRIORITY_MAP[i].labels}
    IN IF hits = {} THEN "NONE"
       ELSE PRIORITY_MAP[CHOOSE i \in hits : \A j \in hits : i <= j].level
get_priority(label) ==
    LET hits == {i \in DOMAIN PRIORITY_MAP : label \in PRIORITY_MAP[i].labels}
    IN IF hits = {} THEN "LOW"
       ELSE PRIORITY_MAP[CHOOSE i \in hits : \A j \in hits : i <= j].level

build_query_OneTemplate(label) == "safety requirement construction site"
build_query_KnownOnly(label) ==
    IF label \in DOMAIN SAFETY_QUERY_MAP THEN SAFETY_QUERY_MAP[label] ELSE ""
build_query(label) ==
    IF label \in DOMAIN SAFETY_QUERY_MAP THEN SAFETY_QUERY_MAP[label]
    ELSE label \o " safety requirement construction site"

\* A Python dict as the sequence of its [key, value] items in insertion order.
DictHas(d, k) == \E i \in DOMAIN d : d[i].key = k
DictGet(d, k) == d[CHOOSE i \in DOMAIN d : d[i].key = k].value
DictPut(d, k, v) == Append(d, [key |-> k, value |-> v])   \* k is not in d

RECURSIVE DictValues(_)
DictValues(d) == IF d = <<>> THEN <<>> ELSE <<Head(d).value>> \o DictValues(Tail(d))

\* A point of the index: its payload may be missing, and so may the payload's
\* "text" and "source".
Point(text, source) ==
    [has_payload |-> TRUE, has_text |-> TRUE, text |-> text,
     has_source |-> TRUE, source |-> source]
BarePoint ==
    [has_payload |-> FALSE, has_text |-> FALSE, text |-> <<>>,
     has_source |-> FALSE, source |-> ""]

PayloadText(point) ==
    IF point.has_payload /\ point.has_text THEN point.text ELSE <<>>
PayloadSource(point) ==
    IF point.has_payload /\ point.has_source THEN point.source ELSE "Unknown"

\* The texts of the corpus the model draws passages from.
TextA1 == <<Run("a", 200), Run("b", 1)>>
TextA2 == <<Run("a", 200), Run("c", 1)>>     \* differs from TextA1 at character 201
TextB  == <<Run("a", 199), Run("b", 2)>>     \* differs from TextA1 at character 200
TextLong == <<Run("d", 250), Run("e", 100)>>

\* Python's hash() on the strings the program hashes: equal strings have equal
\* hashes, and distinct strings are given distinct ones (no collision).
HashStrings ==
    << <<>>, Prefix(TextA1, DEDUP_PREFIX), Prefix(TextB, DEDUP_PREFIX),
       Prefix(TextLong, DEDUP_PREFIX), TextA1, TextA2, TextB, TextLong >>
PyHash(str) == CHOOSE i \in DOMAIN HashStrings : HashStrings[i] = str

\* text_key = hash(text[:200])
TextKey_WholeText(text) == PyHash(text)
TextKey(text) == PyHash(Prefix(text, DEDUP_PREFIX))

\* The inner loop of retrieve_regulations: for point in points.
RECURSIVE AddPoints_LastWins(_, _)
AddPoints_LastWins(dict, points) ==
    IF points = <<>> THEN dict
    ELSE LET point == Head(points)
             text  == PayloadText(point)
             key   == TextKey(text)
             reg   == Regulation(PayloadSource(point), text, "CAL_OSHA")
             next  == IF DictHas(dict, key)
                      THEN [i \in DOMAIN dict |->
                              IF dict[i].key = key THEN [key |-> key, value |-> reg]
                              ELSE dict[i]]
                      ELSE DictPut(dict, key, reg)
         IN AddPoints_LastWins(next, Tail(points))
RECURSIVE AddPoints(_, _)
AddPoints(dict, points) ==
    IF points = <<>> THEN dict
    ELSE LET point == Head(points)
             text  == PayloadText(point)
             key   == TextKey(text)
             next  == IF DictHas(dict, key) THEN dict
                      ELSE DictPut(dict, key,
                                   Regulation(PayloadSource(point), text, "CAL_OSHA"))
         IN AddPoints(next, Tail(points))

\* RAGRetriever._search: what the index answers (an exception, or the fused
\* ranking of the passages that clear score_threshold), cut to limit.
_search(answer, query_text, limit) ==
    [raised |-> answer.raised,
     points |-> SubSeq(answer.ranking, 1, Min(Len(answer.ranking), limit)),
     call   |-> [query |-> query_text, limit |-> limit, prefetch |-> limit * 3,
                 score_threshold |-> SCORE_THRESHOLD]]

\* limit = RETRIEVAL_LIMITS.get(priority, 1)
RetrievalLimit_Flat(priority) == 5
RetrievalLimit(priority) ==
    IF priority \in DOMAIN RETRIEVAL_LIMITS THEN RETRIEVAL_LIMITS[priority] ELSE 1

\* Whether the loop skips a detection (the two continue statements).
SkipsDetection_AboveThresholdOnly(d) ==
    \/ d.confidence <= CONFIDENCE_THRESHOLD
    \/ (get_priority(d.label) = "LOW" /\ d.label \notin RAG_VIOLATION_LABELS)
SkipsDetection_Never(d) == FALSE
SkipsDetection_ConfidenceOnly(d) == d.confidence < CONFIDENCE_THRESHOLD
SkipsDetection(d) ==
    \/ d.confidence < CONFIDENCE_THRESHOLD
    \/ (get_priority(d.label) = "LOW" /\ d.label \notin RAG_VIOLATION_LABELS)

\* "if query_text in query_cache"
CacheHit_Never(cache, query_text) == FALSE
CacheHit(cache, query_text) == DictHas(cache, query_text)

\* One iteration of "for detection in context": the locals after it, and
\* whether _search raised.  answer is what the index does if it is asked.
LoopBody(dict, cache, log, d, answer) ==
    IF SkipsDetection(d)
    THEN [raised |-> FALSE, dict |-> dict, cache |-> cache, log |-> log]
    ELSE LET priority   == get_priority(d.label)
             query_text == build_query(d.label)
             limit      == RetrievalLimit(priority)
         IN IF CacheHit(cache, query_text)
            THEN [raised |-> FALSE, dict |-> AddPoints(dict, DictGet(cache, query_text)),
                  cache |-> cache, log |-> log]
            ELSE LET r == _search(answer, query_text, limit)
                 IN IF r.raised
                    THEN [raised |-> TRUE, dict |-> dict, cache |-> cache,
                          log |-> Append(log, r.call)]
                    ELSE [raised |-> FALSE, dict |-> AddPoints(dict, r.points),
                          cache |-> DictPut(cache, query_text, r.points),
                          log |-> Append(log, r.call)]

(***************************************************************************)
(* agents/video.py                                                         *)
(***************************************************************************)
MAX_FRAMES == 10
MaxFrames == 2     \* most frames a modelled video holds

Frame(n) == [frame_num |-> n, timestamp |-> n]

\* VideoProcessor.process.  v says whether ffprobe succeeds, how many frames
\* ffmpeg delivers, and ffmpeg's return code.
process_IgnoresReturnCode(v) ==
    LET n == Min(v.available, MAX_FRAMES)
    IN IF ~v.probe_ok THEN [raised |-> TRUE, frames |-> <<>>]
       ELSE [raised |-> FALSE, frames |-> [i \in 1..n |-> Frame(i - 1)]]
process(v) ==
    LET n == Min(v.available, MAX_FRAMES)
    IN IF ~v.probe_ok THEN [raised |-> TRUE, frames |-> <<>>]
       ELSE IF v.returncode # 0 /\ n = 0 THEN [raised |-> TRUE, frames |-> <<>>]
       ELSE [raised |-> FALSE, frames |-> [i \in 1..n |-> Frame(i - 1)]]

(***************************************************************************)
(* agents/vision.py                                                        *)
(***************************************************************************)
ROBOFLOW_CONFIDENCE_THRESHOLD == 30

KeepsPrediction(p) == p.confidence >= ROBOFLOW_CONFIDENCE_THRESHOLD

\* VisionDetector._run_roboflow: rf is what the inference call does.
_run_roboflow(rf) ==
    IF rf.raised THEN <<>> ELSE SelectSeq(rf.predictions, KeepsPrediction)

HasLabel(d) == d.label # ""

\* VisionDetector._run_claude_vision: cv is what invoke_vision_json does; the
\* labels are given as they are after strip().
_run_claude_vision(cv) ==
    IF cv.raised THEN <<>> ELSE SelectSeq(cv.predictions, HasLabel)

\* "if rf_detections: ... else: ..." in detect: the fallback runs on a frame
\* for which _run_roboflow returned an empty list.
UsesFallback_Never(rf_detections) == FALSE
UsesFallback(rf_detections) == rf_detections = <<>>

\* VisionDetector.detect: outs[i] is what the two detectors do on frame i.
RECURSIVE DetectFrom(_, _, _)
DetectFrom(frs, outs, i) ==
    IF i > Len(frs) THEN <<>>
    ELSE LET rf_detections == _run_roboflow(outs[i].rf)
         IN (IF ~UsesFallback(rf_detections) THEN rf_detections
             ELSE _run_claude_vision(outs[i].cv))
            \o DetectFrom(frs, outs, i + 1)

detect(frs, outs) == IF frs = <<>> THEN <<>> ELSE DetectFrom(frs, outs, 1)

(***************************************************************************)
(* agents/report.py                                                        *)
(***************************************************************************)
\* ReportGenerator.generate_report: the narrative model's failure is caught
\* and replaced by the fallback text; the path of the DOCX is returned.
generate_report_op(video_id, narrative_ok) == "reports/" \o video_id \o "_report.docx"

(***************************************************************************)
(* agents/alert.py, utils.py                                               *)
(***************************************************************************)
\* _build_message reads risk.alert_level, risk.risk_score, risk.violations and
\* risk.equipment_context; reading an attribute the object does not have
\* raises AttributeError.
_build_message(risk) ==
    IF {"alert_level", "risk_score", "violations", "equipment_context"} \subseteq DOMAIN risk
    THEN [raised |-> FALSE,
          subject |-> [alert_level |-> risk.alert_level, risk_score |-> risk.risk_score]]
    ELSE [raised |-> TRUE,
          subject |-> [alert_level |-> "", risk_score |-> 0]]

\* run_alert_agent: sns says whether initialize_sns and sns.publish succeed.
run_alert_agent(risk, sns) ==
    IF ~sns.init_ok THEN [raised |-> FALSE, alerts_sent |-> <<>>]
    ELSE LET m == _build_message(risk)
         IN IF m.raised THEN [raised |-> TRUE, alerts_sent |-> <<>>]
            ELSE IF sns.publish_ok THEN [raised |-> FALSE, alerts_sent |-> <<"email">>]
            ELSE [raised |-> FALSE, alerts_sent |-> <<>>]

(***************************************************************************)
(* What the environment may do: the inputs the model enumerates.           *)
(***************************************************************************)
\* The demo input of rag.py's __main__.
EndToEndInput ==
    << Detection("NO-Hardhat", 91), Detection("NO-Safety Vest", 85),
       Detection("Excavator", 78), Detection("Sedan", 72), Detection("Ladder", 65) >>

\* Detection lists given to assess.
RiskDetUniverse ==
    { Detection("NO-Hardhat", 91), Detection("NO-Mask", 20), Detection("Excavator", 78),
      Detection("Person", 60), Detection("Sedan", 72) }
RiskScenarios ==
    { EndToEndInput,
      << Detection("NO-Hardhat", 91), Detection("NO-Mask", 20), Detection("NO-Safety Vest", 85) >>,
      << Detection("NO-Hardhat", 91), Detection("NO-Safety Vest", 85),
         Detection("Excavator", 78), Detection("Person", 60) >>,
      [i \in 1..5 |-> Detection("NO-Hardhat", 91)],
      [i \in 1..6 |-> IF i <= 4 THEN Detection("NO-Mask", 20)
                      ELSE IF i = 5 THEN Detection("Dump Truck", 70)
                      ELSE Detection("Person", 60)] }
RiskInputs == BoundedSeq(RiskDetUniverse, MaxDet) \cup RiskScenarios
RiskRegArgs == { <<>>, <<Regulation("1926.100", TextLong, "CAL_OSHA")>> }

\* What the scoring model may answer to invoke_json.
ScoreValues ==
    { JMissing, JInt(0 - 1), JInt(0), JInt(25), JInt(60), JInt(100), JInt(101),
      JStr("75"), JStr("150"), JStr("high") }
LevelValues ==
    { JMissing, JStr("LOW"), JStr("MEDIUM"), JStr("HIGH"), JStr("CRITICAL"), JStr("SEVERE") }
ViolationEntry(type, confidence, severity) ==
    [type |-> type, confidence |-> confidence, severity |-> severity]
EntryOk      == ViolationEntry(JStr("NO-Hardhat"), JInt(90), JStr("HIGH"))
EntryNoConf  == ViolationEntry(JStr("NO-Mask"), JMissing, JStr("LOW"))
EntryNoType  == ViolationEntry(JMissing, JInt(90), JStr("HIGH"))
EntryBadSev  == ViolationEntry(JStr("NO-Hardhat"), JInt(90), JStr("SEVERE"))
EntryNoSev   == ViolationEntry(JStr("NO-Hardhat"), JInt(90), JMissing)
EntryBadConf == ViolationEntry(JStr("NO-Hardhat"), JStr("high"), JStr("HIGH"))
ViolationsValues ==
    { [t |-> "missing", items |-> <<>>], [t |-> "null", items |-> <<>>],
      [t |-> "list", items |-> <<>>], [t |-> "list", items |-> <<EntryOk, EntryNoConf>>],
      [t |-> "list", items |-> <<EntryOk, EntryNoType>>],
      [t |-> "list", items |-> <<EntryBadSev>>], [t |-> "list", items |-> <<EntryNoSev>>],
      [t |-> "list", items |-> <<EntryBadConf>>] }
ModelOutcome(kind, score, level, violations) ==
    [kind |-> kind, risk_score |-> score, alert_level |-> level, violations |-> violations]
ModelObjects ==
    { ModelOutcome("object", sc, lv, vs) :
        sc \in ScoreValues, lv \in LevelValues, vs \in ViolationsValues }
ModelFailures ==
    { ModelOutcome(k, JMissing, JMissing, [t |-> "missing", items |-> <<>>]) :
        k \in {"unreachable", "nonjson", "nonobject"} }
ModelOutcomes == ModelFailures \cup ModelObjects
\* The answers tried inside a whole run.
RunModelOutcomes ==
    { ModelOutcome("unreachable", JMissing, JMissing, [t |-> "missing", items |-> <<>>]),
      ModelOutcome("object", JInt(101), JStr("HIGH"), [t |-> "list", items |-> <<>>]),
      ModelOutcome("object", JInt(60), JStr("HIGH"), [t |-> "list", items |-> <<EntryOk>>]) }

\* Detection lists given to retrieve_regulations.
RagDetUniverse ==
    { Detection("NO-Hardhat", 90), Detection("NO-Hardhat", 49),
      Detection("NO-Safety Vest", 50), Detection("Excavator", 78),
      Detection("Sedan", 90), Detection("Crane", 90) }
RagInputs == BoundedSeq(RagDetUniverse, MaxDet) \cup {EndToEndInput}

\* Labels given to get_priority and build_query: those of the two maps, the
\* label "machinery" of risk.py, and labels of neither map.
KnownLabels == DOMAIN SAFETY_QUERY_MAP \cup UNION {PRIORITY_MAP[i].labels : i \in DOMAIN PRIORITY_MAP}
LabelUniverse == KnownLabels \cup {"Crane", "", "machinery"}
LabelInputs ==
    { <<Detection(l, c)>> : l \in LabelUniverse, c \in {49, 50, 90} }

\* What the index may answer to one search.
P1 == Point(TextA1, "1926.100")
P2 == Point(TextA2, "1926.95")
P3 == Point(TextB, "1910.132")
P4 == Point(TextLong, "1926.651")
SearchAnswer(raised, ranking) == [raised |-> raised, ranking |-> ranking]
IndexAnswers ==
    { SearchAnswer(TRUE, <<>>), SearchAnswer(FALSE, <<>>), SearchAnswer(FALSE, <<P1>>),
      SearchAnswer(FALSE, <<P1, P2>>), SearchAnswer(FALSE, <<P3, P1>>),
      SearchAnswer(FALSE, <<P2, P4, BarePoint>>),
      SearchAnswer(FALSE, <<P1, P3, P4, P2>>) }
RunIndexAnswers ==
    { SearchAnswer(TRUE, <<>>), SearchAnswer(FALSE, <<>>), SearchAnswer(FALSE, <<P1, P2>>) }

\* What ffprobe and ffmpeg may do.
VideoOutcomes ==
    [probe_ok : BOOLEAN, available : 0..MaxFrames, returncode : {0, 1}]

\* What the two detectors may do on one frame.
DetectorOutcome(raised, predictions) == [raised |-> raised, predictions |-> predictions]
RoboflowOutcomes ==
    { DetectorOutcome(TRUE, <<>>), DetectorOutcome(FALSE, <<>>),
      DetectorOutcome(FALSE, <<Detection("Sedan", 29)>>),
      DetectorOutcome(FALSE, <<Detection("NO-Hardhat", 91), Detection("Excavator", 78)>>),
      DetectorOutcome(FALSE, <<Detection("Sedan", 72), Detection("NO-Mask", 45)>>) }
ClaudeOutcomes ==
    { DetectorOutcome(TRUE, <<>>), DetectorOutcome(FALSE, <<>>),
      DetectorOutcome(FALSE, <<Detection("", 50), Detection("NO-Safety Vest", 50)>>) }
FrameOutcomes == [rf : RoboflowOutcomes, cv : ClaudeOutcomes]
\* The detector behaviours tried inside a whole run.
RunFrameOutcomes ==
    { [rf |-> DetectorOutcome(TRUE, <<>>), cv |-> DetectorOutcome(TRUE, <<>>)],
      [rf |-> DetectorOutcome(FALSE, <<>>), cv |-> DetectorOutcome(FALSE, <<>>)],
      [rf |-> DetectorOutcome(FALSE, <<Detection("Sedan", 29)>>),
       cv |-> DetectorOutcome(FALSE, <<Detection("", 50), Detection("NO-Safety Vest", 50)>>)],
      [rf |-> DetectorOutcome(FALSE, <<Detection("NO-Hardhat", 91), Detection("Excavator", 78)>>),
       cv |-> DetectorOutcome(TRUE, <<>>)],
      [rf |-> DetectorOutcome(FALSE, <<Detection("Sedan", 72), Detection("NO-Mask", 45)>>),
       cv |-> DetectorOutcome(TRUE, <<>>)] }

\* Detection lists given to the interleaved calls.
CallInputs ==
    { <<>>, <<Detection("Sedan", 90)>>, <<Detection("NO-Hardhat", 90)>>,
      <<Detection("NO-Hardhat", 90), Detection("NO-Hardhat", 90)>> }

\* The threads that call BedrockModel.get_instance.
MaxCallers == 3
Callers == 1..MaxCallers

\* The retrieve_regulations calls in flight on one retriever.
MaxCalls == 2
CallIds == 1..MaxCalls

SnsOutcomes == [init_ok : BOOLEAN, publish_ok : BOOLEAN]

(***************************************************************************)
(* graph.py: the stages of one run.  A stage that raises ends the run:     *)
(* the exception leaves workflow.invoke.                                   *)
(***************************************************************************)
NoResult == [raised |-> FALSE, value |-> ZeroAssessment, path |-> "none"]

NoAlert == [called |-> FALSE, init_ok |-> FALSE, publish_ok |-> FALSE,
            raised |-> FALSE, alerts_sent |-> <<>>]

NoLabel == [called |-> FALSE, priority |-> "", query |-> ""]

NoVideo == [probe_ok |-> FALSE, available |-> 0, returncode |-> 0]

\* A retrieve_regulations call that has not been made, and a thread that has
\* not called get_instance.
NoCall == [context |-> <<>>, pc |-> "none", idx |-> 1, regulations_dict |-> <<>>,
           query_cache |-> <<>>, log |-> <<>>, result |-> <<>>]
NoCaller == [pc |-> "idle", obj |-> 0, ret |-> 0]

\* SafetyGraph.run's initial_state.
InitialAssessment == RiskAssessment(JInt(0), "LOW", <<>>, <<>>).value

VideoPath == "site.mp4"

\* _build_graph: set_entry_point and add_edge.
ENTRY_POINT == "process_video"
EDGES ==
    [process_video        |-> "detect_objects",
     detect_objects       |-> "retrieve_regulations",
     retrieve_regulations |-> "assess_risk",
     assess_risk          |-> "generate_report",
     generate_report      |-> "send_alerts",
     send_alerts          |-> "END"]

\* The node that runs after a node has returned its update.
NextStage_SkipsReport(stage) ==
    IF stage = "assess_risk" THEN "send_alerts" ELSE EDGES[stage]
NextStage(stage) == EDGES[stage]

\* GraphState's reducers: operator.add for the Annotated list fields, plain
\* replacement for the other fields.
MergeList(old, update) == old \o update
MergeSingular_KeepsOld(old, update) == old
MergeSingular(old, update) == update

\* A node's execution as the run's observer sees it.
Started(stage) == [stage |-> stage, ev |-> "start"]
Ended(stage) == [stage |-> stage, ev |-> "end"]
StageRuns(stage, ok) ==
    stageLog' = IF ok THEN stageLog \o <<Started(stage), Ended(stage)>>
                ELSE Append(stageLog, Started(stage))

Fail(stage) == pc' = "failed" /\ error' = stage

\* SafetyGraph.run: workflow.invoke(initial_state) starts at the entry point.
run ==
    /\ pc = "idle"
    /\ pc' = ENTRY_POINT
    /\ UNCHANGED <<error, frames, detections, regulations, risk_assessment, final_report,
                   alerts_sent, riskVars, ragVars, stageLog, raw_preds, alertResult,
                   labelResult, otherVars>>

\* app.py's progress loop calls graph.stream(video_path); SafetyGraph defines
\* run and the six stage methods and no stream: AttributeError.
stream ==
    /\ pc = "idle"
    /\ Fail("stream")
    /\ UNCHANGED <<frames, detections, regulations, risk_assessment, final_report,
                   alerts_sent, riskVars, ragVars, stageLog, raw_preds, alertResult,
                   labelResult, otherVars>>

\* SafetyGraph.process_video
process_video ==
    /\ pc = "process_video"
    /\ \E v \in VideoOutcomes :
         LET r == process(v)
         IN IF r.raised
            THEN Fail("process_video") /\ frames' = frames /\ video' = v
                 /\ StageRuns("process_video", FALSE)
            ELSE /\ frames' = MergeList(frames, r.frames)
                 /\ pc' = NextStage("process_video")
                 /\ error' = error /\ video' = v
                 /\ StageRuns("process_video", TRUE)
    /\ UNCHANGED <<detections, regulations, risk_assessment, final_report, alerts_sent,
                   riskVars, ragVars, raw_preds, alertResult, labelResult,
                   vision_log, calls, singletonVars>>

\* What the Roboflow call returned for each frame (nothing when it raised).
RawPredictions(outs) ==
    [i \in DOMAIN outs |-> IF outs[i].rf.raised THEN <<>> ELSE outs[i].rf.predictions]

\* Per frame, what the two detectors did and whether detect called
\* _run_claude_vision on the frame.
VisionLog(outs) ==
    [i \in DOMAIN outs |->
       [rf |-> outs[i].rf, cv |-> outs[i].cv,
        cv_called |-> UsesFallback(_run_roboflow(outs[i].rf))]]

\* SafetyGraph.detect_objects
detect_objects(Outs) ==
    /\ pc = "detect_objects"
    /\ \E outs \in [1..Len(frames) -> Outs] :
         /\ detections' = MergeList(detections, detect(frames, outs))
         /\ raw_preds' = RawPredictions(outs)
         /\ vision_log' = VisionLog(outs)
    /\ pc' = NextStage("detect_objects")
    /\ StageRuns("detect_objects", TRUE)
    /\ UNCHANGED <<error, frames, regulations, risk_assessment, final_report, alerts_sent,
                   riskVars, ragVars, alertResult, labelResult,
                   video, calls, singletonVars>>

\* SafetyGraph.retrieve_regulations calls rag_retriever.retrieve_regulations:
\* the call's entry, up to the loop.
RagCall ==
    /\ pc = "retrieve_regulations" /\ ragpc = "call"
    /\ IF detections = <<>>
       THEN /\ ragResult' = <<>>
            /\ ragpc' = "returned"
            /\ regulations' = MergeList(regulations, <<>>)
            /\ pc' = NextStage("retrieve_regulations")
            /\ StageRuns("retrieve_regulations", TRUE)
            /\ UNCHANGED <<idx, regulations_dict, query_cache>>
       ELSE /\ regulations_dict' = <<>>
            /\ query_cache' = <<>>
            /\ idx' = 1
            /\ ragpc' = "loop"
            /\ StageRuns("retrieve_regulations", FALSE)
            /\ UNCHANGED <<ragResult, regulations, pc>>
    /\ UNCHANGED <<error, frames, detections, risk_assessment, final_report, alerts_sent,
                   riskVars, searchLog, raw_preds, alertResult, labelResult, otherVars>>

\* One iteration of the loop over context; an exception of _search is not
\* caught by retrieve_regulations nor by the stage.
RagIter(Answers) ==
    /\ pc = "retrieve_regulations" /\ ragpc = "loop" /\ idx <= Len(detections)
    /\ \E answer \in Answers :
         LET r == LoopBody(regulations_dict, query_cache, searchLog, detections[idx], answer)
         IN /\ regulations_dict' = r.dict
            /\ query_cache' = r.cache
            /\ searchLog' = r.log
            /\ IF r.raised
               THEN ragpc' = "raised" /\ Fail("retrieve_regulations") /\ idx' = idx
               ELSE ragpc' = ragpc /\ idx' = idx + 1 /\ UNCHANGED <<pc, error>>
    /\ UNCHANGED <<frames, detections, regulations, risk_assessment, final_report,
                   alerts_sent, riskVars, ragResult, stageLog, raw_preds, alertResult,
                   labelResult, otherVars>>

\* The loop is over: the list is returned and the stage's update is merged.
RagReturn ==
    /\ pc = "retrieve_regulations" /\ ragpc = "loop" /\ idx > Len(detections)
    /\ ragResult' = DictValues(regulations_dict)
    /\ regulations' = MergeList(regulations, DictValues(regulations_dict))
    /\ ragpc' = "returned"
    /\ pc' = NextStage("retrieve_regulations")
    /\ stageLog' = Append(stageLog, Ended("retrieve_regulations"))
    /\ UNCHANGED <<error, frames, detections, risk_assessment, final_report, alerts_sent,
                   riskVars, idx, regulations_dict, query_cache, searchLog, raw_preds,
                   alertResult, labelResult, otherVars>>

\* SafetyGraph.assess_risk
assess_risk(Outcomes) ==
    /\ pc = "assess_risk"
    /\ \E outcome \in Outcomes :
         LET r == assess(detections, regulations, outcome)
         IN /\ riskResult' = [raised |-> r.raised, value |-> r.value, path |-> r.path]
            /\ requests' = requests \o r.requests
            /\ responses' = responses \o r.responses
            /\ IF r.raised
               THEN Fail("assess_risk") /\ risk_assessment' = risk_assessment
                    /\ StageRuns("assess_risk", FALSE)
               ELSE /\ risk_assessment' = MergeSingular(risk_assessment, r.value)
                    /\ pc' = NextStage("assess_risk") /\ error' = error
                    /\ StageRuns("assess_risk", TRUE)
    /\ UNCHANGED <<frames, detections, regulations, final_report, alerts_sent, ragVars,
                   raw_preds, alertResult, labelResult, otherVars>>

\* SafetyGraph.generate_report
generate_report ==
    /\ pc = "generate_report"
    /\ \E narrative_ok \in BOOLEAN :
         final_report' = MergeSingular(final_report,
                                       generate_report_op(VideoPath, narrative_ok))
    /\ pc' = NextStage("generate_report")
    /\ StageRuns("generate_report", TRUE)
    /\ UNCHANGED <<error, frames, detections, regulations, risk_assessment, alerts_sent,
                   riskVars, ragVars, raw_preds, alertResult, labelResult, otherVars>>

\* SafetyGraph.send_alerts
send_alerts ==
    /\ pc = "send_alerts"
    /\ \E sns \in SnsOutcomes :
         LET r == run_alert_agent(risk_assessment, sns)
         IN /\ alertResult' = [called |-> TRUE, init_ok |-> sns.init_ok,
                               publish_ok |-> sns.publish_ok, raised |-> r.raised,
                               alerts_sent |-> r.alerts_sent]
            /\ IF r.raised
               THEN Fail("send_alerts") /\ alerts_sent' = alerts_sent
                    /\ StageRuns("send_alerts", FALSE)
               ELSE /\ alerts_sent' = MergeList(alerts_sent, r.alerts_sent)
                    /\ pc' = NextStage("send_alerts") /\ error' = error
                    /\ StageRuns("send_alerts", TRUE)
    /\ UNCHANGED <<frames, detections, regulations, risk_assessment, final_report,
                   riskVars, ragVars, raw_preds, labelResult, otherVars>>

\* One call of get_priority and of build_query on a detection's label, as the
\* loop of retrieve_regulations makes them.
ClassifyLabel ==
    /\ pc = "label"
    /\ labelResult' = [called   |-> TRUE,
                       priority |-> get_priority(detections[1].label),
                       query    |-> build_query(detections[1].label)]
    /\ pc' = "labelled"
    /\ UNCHANGED <<error, frames, detections, regulations, risk_assessment, final_report,
                   alerts_sent, riskVars, ragVars, stageLog, raw_preds, alertResult, otherVars>>

(***************************************************************************)
(* Several retrieve_regulations calls on one RAGRetriever, interleaved at  *)
(* the iterations of their loops.  regulations_dict and query_cache are    *)
(* locals of the call.                                                     *)
(***************************************************************************)
\* The query_cache a call reads and writes.
VisibleCache_Shared(cs, c) == cs[1].query_cache \o cs[c].query_cache
VisibleCache(cs, c) == cs[c].query_cache

\* The call is made: "if not context: return []", then the two empty dicts.
CallEnter(c, Contexts) ==
    /\ pc = "retrieve_calls" /\ calls[c].pc = "none"
    /\ \E context \in Contexts :
         calls' = [calls EXCEPT ![c] =
                     [context |-> context,
                      pc |-> IF context = <<>> THEN "returned" ELSE "loop",
                      idx |-> 1, regulations_dict |-> <<>>, query_cache |-> <<>>,
                      log |-> <<>>, result |-> <<>>]]
    /\ UNCHANGED <<pc, error, frames, detections, regulations, risk_assessment,
                   final_report, alerts_sent, riskVars, ragVars, stageLog, raw_preds,
                   alertResult, labelResult, video, vision_log, singletonVars>>

\* One iteration of the call's loop.
CallIter(c, Answers) ==
    /\ pc = "retrieve_calls" /\ calls[c].pc = "loop"
    /\ calls[c].idx <= Len(calls[c].context)
    /\ \E answer \in Answers :
         LET r == LoopBody(calls[c].regulations_dict, VisibleCache(calls, c), calls[c].log,
                           calls[c].context[calls[c].idx], answer)
         IN calls' = [calls EXCEPT ![c].regulations_dict = r.dict,
                                   ![c].query_cache = r.cache,
                                   ![c].log = r.log,
                                   ![c].pc = IF r.raised THEN "raised" ELSE "loop",
                                   ![c].idx = IF r.raised THEN @ ELSE @ + 1]
    /\ UNCHANGED <<pc, error, frames, detections, regulations, risk_assessment,
                   final_report, alerts_sent, riskVars, ragVars, stageLog, raw_preds,
                   alertResult, labelResult, video, vision_log, singletonVars>>

\* The call's loop is over: list(regulations_dict.values()) is returned.
CallReturn(c) ==
    /\ pc = "retrieve_calls" /\ calls[c].pc = "loop"
    /\ calls[c].idx > Len(calls[c].context)
    /\ calls' = [calls EXCEPT ![c].result = DictValues(calls[c].regulations_dict),
                              ![c].pc = "returned"]
    /\ UNCHANGED <<pc, error, frames, detections, regulations, risk_assessment,
                   final_report, alerts_sent, riskVars, ragVars, stageLog, raw_preds,
                   alertResult, labelResult, video, vision_log, singletonVars>>

(***************************************************************************)
(* model.py: BedrockModel.get_instance called by several threads.  The     *)
(* test of cls._instance, the construction cls(), the assignment and the   *)
(* final read of cls._instance are separate steps of a thread.             *)
(***************************************************************************)
\* "if cls._instance is None"
gi_Check(t) ==
    /\ pc = "get_instance" /\ caller[t].pc = "idle"
    /\ caller' = [caller EXCEPT ![t].pc = IF _instance = 0 THEN "construct" ELSE "return"]
    /\ UNCHANGED <<pc, error, frames, detections, regulations, risk_assessment,
                   final_report, alerts_sent, riskVars, ragVars, stageLog, raw_preds,
                   alertResult, labelResult, video, vision_log, calls, _instance,
                   constructed>>

\* "cls()": a new BedrockModel is constructed.
gi_Construct(t) ==
    /\ pc = "get_instance" /\ caller[t].pc = "construct"
    /\ constructed' = constructed + 1
    /\ caller' = [caller EXCEPT ![t].pc = "assign", ![t].obj = constructed + 1]
    /\ UNCHANGED <<pc, error, frames, detections, regulations, risk_assessment,
                   final_report, alerts_sent, riskVars, ragVars, stageLog, raw_preds,
                   alertResult, labelResult, video, vision_log, calls, _instance>>

\* "cls._instance = ..."
gi_Assign(t) ==
    /\ pc = "get_instance" /\ caller[t].pc = "assign"
    /\ _instance' = caller[t].obj
    /\ caller' = [caller EXCEPT ![t].pc = "return"]
    /\ UNCHANGED <<pc, error, frames, detections, regulations, risk_assessment,
                   final_report, alerts_sent, riskVars, ragVars, stageLog, raw_preds,
                   alertResult, labelResult, video, vision_log, calls, constructed>>

\* "return cls._instance"
gi_Return(t) ==
    /\ pc = "get_instance" /\ caller[t].pc = "return"
    /\ caller' = [caller EXCEPT ![t].pc = "done", ![t].ret = _instance]
    /\ UNCHANGED <<pc, error, frames, detections, regulations, risk_assessment,
                   final_report, alerts_sent, riskVars, ragVars, stageLog, raw_preds,
                   alertResult, labelResult, video, vision_log, calls, _instance,
                   constructed>>

(***************************************************************************)
(* An external call that never returns.  The stages call infer,            *)
(* invoke_vision_json, query_points and invoke_model with no timeout       *)
(* argument and wait for them; nothing in a stage ends the wait.           *)
(***************************************************************************)
MakesExternalCall ==
    \/ pc = "detect_objects" /\ frames # <<>>
    \/ /\ pc = "retrieve_regulations" /\ ragpc = "loop" /\ idx <= Len(detections)
       /\ ~SkipsDetection(detections[idx])
       /\ ~CacheHit(query_cache, build_query(detections[idx].label))
    \/ pc = "assess_risk" /\ detections # <<>>

ExternalCallHangs ==
    /\ MakesExternalCall
    /\ pc' = "hung"
    /\ stageLog' = IF pc = "retrieve_regulations" THEN stageLog
                   ELSE Append(stageLog, Started(pc))
    /\ UNCHANGED <<error, frames, detections, regulations, risk_assessment, final_report,
                   alerts_sent, riskVars, ragVars, raw_preds, alertResult, labelResult,
                   otherVars>>

(***************************************************************************)
(* Specifications.                                                         *)
(***************************************************************************)
InitCommon ==
    /\ error = ""
    /\ risk_assessment = InitialAssessment
    /\ final_report = ""
    /\ alerts_sent = <<>>
    /\ riskResult = NoResult
    /\ requests = <<>>
    /\ responses = <<>>
    /\ ragpc = "call"
    /\ idx = 1
    /\ regulations_dict = <<>>
    /\ query_cache = <<>>
    /\ searchLog = <<>>
    /\ ragResult = <<>>
    /\ stageLog = <<>>
    /\ raw_preds = <<>>
    /\ alertResult = NoAlert
    /\ labelResult = NoLabel
    /\ video = NoVideo
    /\ vision_log = <<>>
    /\ calls = [c \in CallIds |-> NoCall]
    /\ _instance = 0
    /\ constructed = 0
    /\ caller = [t \in Callers |-> NoCaller]

\* A SafetyGraph the application has built: run(video_path) or
\* stream(video_path) is called on it.
Init ==
    /\ InitCommon
    /\ pc = "idle"
    /\ frames = <<>>
    /\ detections = <<>>
    /\ regulations = <<>>

Next ==
    \/ run
    \/ stream
    \/ process_video
    \/ detect_objects(RunFrameOutcomes)
    \/ RagCall
    \/ RagIter(RunIndexAnswers)
    \/ RagReturn
    \/ assess_risk(RunModelOutcomes)
    \/ generate_report
    \/ send_alerts

Spec == Init /\ [][Next]_vars

\* RiskAssessor.assess on any detection list and regulation list.
InitRisk ==
    /\ InitCommon
    /\ pc = "assess_risk"
    /\ frames = <<>>
    /\ detections \in RiskInputs
    /\ regulations \in RiskRegArgs

NextRisk == assess_risk(ModelOutcomes)

SpecRisk == InitRisk /\ [][NextRisk]_vars

\* RAGRetriever.retrieve_regulations on any detection list.
InitRag ==
    /\ InitCommon
    /\ pc = "retrieve_regulations"
    /\ frames = <<>>
    /\ detections \in RagInputs
    /\ regulations = <<>>

NextRag ==
    \/ RagCall
    \/ RagIter(IndexAnswers)
    \/ RagReturn

SpecRag == InitRag /\ [][NextRag]_vars

\* VisionDetector.detect on any frame list.
InitVision ==
    /\ InitCommon
    /\ pc = "detect_objects"
    /\ frames \in {[i \in 1..n |-> Frame(i - 1)] : n \in 0..MaxFrames}
    /\ detections = <<>>
    /\ regulations = <<>>

NextVision == detect_objects(FrameOutcomes)

SpecVision == InitVision /\ [][NextVision]_vars

\* Calls of retrieve_regulations on one retriever, interleaved.
InitRagRuns ==
    /\ InitCommon
    /\ pc = "retrieve_calls"
    /\ frames = <<>>
    /\ detections = <<>>
    /\ regulations = <<>>

NextRagRuns ==
    \E c \in CallIds :
       \/ CallEnter(c, CallInputs)
       \/ CallIter(c, RunIndexAnswers)
       \/ CallReturn(c)

SpecRagRuns == InitRagRuns /\ [][NextRagRuns]_vars

\* Threads calling BedrockModel.get_instance at the same time.
InitSingleton ==
    /\ InitCommon
    /\ pc = "get_instance"
    /\ frames = <<>>
    /\ detections = <<>>
    /\ regulations = <<>>

NextSingleton ==
    \E t \in Callers :
       \/ gi_Check(t)
       \/ gi_Construct(t)
       \/ gi_Assign(t)
       \/ gi_Return(t)

SpecSingleton == InitSingleton /\ [][NextSingleton]_vars

\* A whole run in which an external call may never return; the run takes
\* a step whenever it can.
NextHang == Next \/ ExternalCallHangs

SpecHang == Init /\ [][NextHang]_vars /\ WF_vars(NextHang)

\* get_priority and build_query on any label.
InitLabel ==
    /\ InitCommon
    /\ pc = "label"
    /\ frames = <<>>
    /\ detections \in LabelInputs
    /\ regulations = <<>>

NextLabel == ClassifyLabel

SpecLabel == InitLabel /\ [][NextLabel]_vars

(***************************************************************************)
(* Properties of RiskAssessor.assess (checked under SpecRisk).             *)
(***************************************************************************)
AssessDone == riskResult.path # "none"
Assessed == riskResult.value

\* Number of detections with a violation label, each detection counted.
ViolationCount ==
    Cardinality({i \in DOMAIN detections :
                   detections[i].label \in {"NO-Hardhat", "NO-Mask", "NO-Safety Vest"}})
MachineryCount ==
    Cardinality({i \in DOMAIN detections :
                   detections[i].label \in {"Excavator", "Wheel Loader", "Machinery",
                                            "Dump Truck", "machinery"}})
PersonCount == Cardinality({i \in DOMAIN detections : detections[i].label = "Person"})

\* The fixed thresholds: >= 75 CRITICAL, >= 50 HIGH, >= 25 MEDIUM, else LOW.
ThresholdLevel(score) ==
    CASE score >= 75 -> "CRITICAL"
      [] score >= 50 /\ score < 75 -> "HIGH"
      [] score >= 25 /\ score < 50 -> "MEDIUM"
      [] OTHER -> "LOW"

ModelCallFailed == responses # <<>> /\ responses[1].kind \in {"unreachable", "nonjson"}
ModelUnavailable == responses # <<>> /\ responses[1].kind = "unreachable"

\* C1: with a non-empty detection list and a failed scoring-model call, the
\* score is min(25 * N, 100) for N violation-label detections (whatever their
\* confidence) and the level is the one the thresholds give that score.
C1_FallbackScoreAndLevel ==
    (AssessDone /\ detections # <<>> /\ ModelCallFailed) =>
        /\ ~riskResult.raised
        /\ Assessed.risk_score = Min(25 * ViolationCount, 100)
        /\ Assessed.alert_level = ThresholdLevel(Assessed.risk_score)

\* C1 witness: five violation detections, the model call failed, the cap applies.
C1_Witness ==
    /\ AssessDone /\ ModelCallFailed
    /\ ViolationCount = 5
    /\ Assessed.risk_score = 100 /\ Assessed.alert_level = "CRITICAL"

\* C2 as stated: the five-detection input with the model unavailable gives
\* score 50 and level MEDIUM.
C2_Original ==
    (AssessDone /\ detections = EndToEndInput /\ ModelUnavailable) =>
        (Assessed.risk_score = 50 /\ Assessed.alert_level = "MEDIUM")

\* C2 amended: the five-detection input with the model unavailable gives
\* score 50 and level HIGH.
C2_EndToEndFallback ==
    (AssessDone /\ detections = EndToEndInput /\ ModelUnavailable) =>
        (Assessed.risk_score = 50 /\ Assessed.alert_level = "HIGH")

C2_Witness ==
    AssessDone /\ detections = EndToEndInput /\ ModelUnavailable /\ riskResult.path = "fallback"

\* C3: assess on an empty detection list returns score 0 and level LOW for any
\* regulations argument, and the scoring model is not invoked.
C3_EmptyDetections ==
    (AssessDone /\ detections = <<>>) =>
        /\ ~riskResult.raised
        /\ Assessed.risk_score = 0 /\ Assessed.alert_level = "LOW"
        /\ requests = <<>> /\ responses = <<>>

C3_Witness ==
    AssessDone /\ detections = <<>> /\ regulations # <<>> /\ Assessed.risk_score = 0

\* The malformed answers C4 lists.
ListedFailure(o) ==
    \/ o.kind \in {"unreachable", "nonjson", "nonobject"}
    \/ o.risk_score.t = "missing"
    \/ o.alert_level.t = "missing"
    \/ (o.risk_score.t = "int" /\ (o.risk_score.i < 0 \/ o.risk_score.i > 100))
    \/ (o.alert_level.t = "str" /\ o.alert_level.s \notin {"LOW", "MEDIUM", "HIGH", "CRITICAL"})
    \/ \E i \in DOMAIN o.violations.items :
          \/ o.violations.items[i].type.t = "missing"
          \/ /\ o.violations.items[i].severity.t = "str"
             /\ o.violations.items[i].severity.s \notin {"LOW", "MEDIUM", "HIGH", "CRITICAL"}

\* C4: assess never raises, and on every listed failure of the scoring-model
\* call the result is the rule-based fallback assessment, with no violations.
C4_MalformedFallsBack ==
    AssessDone =>
        /\ ~riskResult.raised /\ pc # "failed"
        /\ (responses # <<>> /\ ListedFailure(responses[1])) =>
              /\ riskResult.path = "fallback"
              /\ Assessed.risk_score = Min(25 * ViolationCount, 100)
              /\ Assessed.alert_level = ThresholdLevel(Assessed.risk_score)
              /\ Assessed.violations = <<>>

\* C4 witness: a JSON object whose only defect is a severity outside the levels.
C4_Witness ==
    /\ AssessDone /\ responses # <<>>
    /\ responses[1].kind = "object"
    /\ responses[1].risk_score = JInt(60) /\ responses[1].alert_level = JStr("HIGH")
    /\ responses[1].violations.items = <<EntryBadSev>>
    /\ riskResult.path = "fallback" /\ ViolationCount = 1 /\ Assessed.risk_score = 25

\* C5 as stated: on both paths the score is in [0,100] and the level is the one
\* the thresholds assign to the score.
C5_Original ==
    AssessDone =>
        /\ Assessed.risk_score \in 0..100
        /\ Assessed.alert_level = ThresholdLevel(Assessed.risk_score)

\* C5 amended: on both paths the score is an integer in [0,100] and the level
\* is one of the four levels; on the fallback and empty-input paths the level
\* is the one the thresholds assign to the score (on the model path it is the
\* level the model gave).
C5_ScoreBoundedLevelValid ==
    AssessDone =>
        /\ Assessed.risk_score \in 0..100
        /\ Assessed.alert_level \in {"LOW", "MEDIUM", "HIGH", "CRITICAL"}
        /\ riskResult.path \in {"fallback", "empty"} =>
              Assessed.alert_level = ThresholdLevel(Assessed.risk_score)

\* C5 witness: the model path returns score 100 with level LOW.
C5_Witness ==
    /\ AssessDone /\ riskResult.path = "model"
    /\ Assessed.risk_score = 100 /\ Assessed.alert_level = "LOW"

\* C6 as stated: on the fallback path the score lies in the scoring-guide band
\* of the input.
C6_Original ==
    (AssessDone /\ riskResult.path = "fallback") =>
        /\ (ViolationCount = 0 /\ MachineryCount = 0) => Assessed.risk_score \in 0..20
        /\ (ViolationCount >= 1 /\ MachineryCount = 0) => Assessed.risk_score \in 30..50
        /\ (ViolationCount >= 1 /\ MachineryCount >= 1
              /\ ~(ViolationCount >= 2 /\ PersonCount >= 1)) => Assessed.risk_score \in 60..80
        /\ (ViolationCount >= 2 /\ MachineryCount >= 1 /\ PersonCount >= 1) =>
              Assessed.risk_score \in 80..100

\* C6 amended: on the fallback path the score depends on the number V of
\* violation detections alone: it is in the 0-20 band when V = 0, it is 25
\* when V = 1 (with or without machinery), it is in the 80-100 band when
\* V >= 4, and it is never more than 25 * V.
C6_FallbackIgnoresMachinery ==
    (AssessDone /\ riskResult.path = "fallback") =>
        /\ ViolationCount = 0 => Assessed.risk_score \in 0..20
        /\ ViolationCount = 1 => Assessed.risk_score = 25
        /\ ViolationCount >= 4 => Assessed.risk_score \in 80..100
        /\ Assessed.risk_score <= 25 * ViolationCount

\* C6 witness: one violation next to heavy machinery scores 25.
C6_Witness ==
    /\ AssessDone /\ riskResult.path = "fallback"
    /\ ViolationCount = 1 /\ MachineryCount >= 1 /\ Assessed.risk_score = 25

(***************************************************************************)
(* Properties of a whole run (checked under Spec).                         *)
(***************************************************************************)
\* C7 as stated: when the index search raises during retrieve_regulations the
\* run does not fail: the stage yields no regulation and the later stages run.
C7_SearchFailureTolerated ==
    ragpc = "raised" =>
        /\ pc \in {"assess_risk", "generate_report", "send_alerts", "END"}
        /\ regulations = <<>>

\* C8 as stated, for the calls of run in which the index search does not fail: once
\* the frames are extracted the run never fails, whatever else fails.
C8_RunAlwaysCompletes ==
    (pc = "failed" /\ error # "stream" /\ ragpc # "raised") => error = "process_video"

(***************************************************************************)
(* Properties of retrieve_regulations (checked under SpecRag).             *)
(***************************************************************************)
First200(text) == Prefix(text, 200)

\* C9: the returned list never holds two Regulations whose text has the same
\* first 200 characters, and every passage some search returned is represented
\* by exactly one Regulation of the list.
C9_NoDuplicateRegulation ==
    /\ \A i, j \in DOMAIN ragResult :
          i # j => First200(ragResult[i].text) # First200(ragResult[j].text)
    /\ \A i, j \in DOMAIN regulations_dict :
          i # j => First200(regulations_dict[i].value.text)
                     # First200(regulations_dict[j].value.text)
    /\ ragpc = "returned" =>
          \A c \in DOMAIN query_cache : \A k \in DOMAIN query_cache[c].value :
             Cardinality({i \in DOMAIN ragResult :
                            First200(ragResult[i].text)
                              = First200(PayloadText(query_cache[c].value[k]))}) = 1

\* C9 witness: two queries returned passages with the same first 200
\* characters (TextA1 and TextA2) and one Regulation stands for them.
C9_Witness ==
    /\ ragpc = "returned" /\ Len(query_cache) = 2
    /\ query_cache[1].value = <<P3, P1>>
    /\ query_cache[2].value = <<P2, P4, BarePoint>>
    /\ Len(ragResult) = 4

\* A detection that takes part in retrieval.
Qualifies(d) ==
    /\ d.confidence >= 50
    /\ ~(get_priority(d.label) = "LOW" /\ d.label \notin {"NO-Hardhat", "NO-Mask", "NO-Safety Vest"})

\* The dict the loop builds when each qualifying detection takes the result
\* set cached for its query.
RECURSIVE FromCache(_, _)
FromCache(i, dict) ==
    IF i > Len(detections) THEN dict
    ELSE FromCache(i + 1,
                   IF Qualifies(detections[i])
                   THEN AddPoints(dict, DictGet(query_cache, build_query(detections[i].label)))
                   ELSE dict)

\* C10: within one call no query string is searched twice; when the call
\* returns, each qualifying detection's query was searched exactly once and
\* every qualifying detection took the result set of that one search.
C10_OneSearchPerQuery ==
    /\ \A i, j \in DOMAIN searchLog : i # j => searchLog[i].query # searchLog[j].query
    /\ (ragpc = "returned" /\ detections # <<>>) =>
          /\ \A k \in DOMAIN detections :
                Qualifies(detections[k]) =>
                   Cardinality({i \in DOMAIN searchLog :
                                  searchLog[i].query = build_query(detections[k].label)}) = 1
          /\ Len(query_cache) = Len(searchLog)
          /\ ragResult = DictValues(FromCache(1, <<>>))

\* C10 witness: two qualifying detections with one query string, one search.
C10_Witness ==
    /\ ragpc = "returned" /\ Len(detections) = 2
    /\ detections[1] = detections[2] /\ Qualifies(detections[1])
    /\ Len(searchLog) = 1 /\ Len(ragResult) = 2

\* The result budget of a tier.
Budget(tier) == CASE tier = "HIGH" -> 5 [] tier = "MEDIUM" -> 3 [] OTHER -> 1

\* C11: every search issued for a qualifying detection asks for its tier's
\* budget of results (HIGH 5, MEDIUM 3, LOW 1), prefetches three times that
\* from the dense and the sparse list, and applies the fused-score threshold
\* 0.60; the result set of a query holds at most the budget.
C11_SearchUsesTierBudget ==
    /\ \A i \in DOMAIN searchLog :
          /\ searchLog[i].prefetch = 3 * searchLog[i].limit
          /\ searchLog[i].score_threshold = 60
          /\ \E k \in DOMAIN detections :
                Qualifies(detections[k]) /\ build_query(detections[k].label) = searchLog[i].query
          /\ \A k \in DOMAIN detections :
                (Qualifies(detections[k])
                   /\ build_query(detections[k].label) = searchLog[i].query)
                => searchLog[i].limit = Budget(get_priority(detections[k].label))
    /\ \A c \in DOMAIN query_cache :
          \E i \in DOMAIN searchLog :
             /\ searchLog[i].query = query_cache[c].key
             /\ Len(query_cache[c].value) <= searchLog[i].limit

\* C11 witness: a HIGH-tier and a MEDIUM-tier search on an index with four
\* passages above the threshold: four are returned for limit 5, three for limit 3.
C11_Witness ==
    /\ ragpc = "returned"
    /\ detections = <<Detection("NO-Hardhat", 90), Detection("Excavator", 78)>>
    /\ Len(searchLog) = 2 /\ searchLog[1].limit = 5 /\ searchLog[2].limit = 3
    /\ query_cache[1].value = <<P1, P3, P4, P2>>
    /\ query_cache[2].value = <<P1, P3, P4>>

\* C12: a detection with confidence below 0.50 causes no search and
\* contributes no Regulation; a HIGH- or MEDIUM-tier detection with confidence
\* exactly 0.50 has its query searched or served from the cache.
C12_ConfidenceFilter ==
    /\ \A i \in DOMAIN searchLog :
          \E k \in DOMAIN detections :
             /\ detections[k].confidence >= 50
             /\ build_query(detections[k].label) = searchLog[i].query
    /\ (\A k \in DOMAIN detections : detections[k].confidence < 50) =>
          (searchLog = <<>> /\ query_cache = <<>> /\ regulations_dict = <<>> /\ ragResult = <<>>)
    /\ ragpc = "returned" =>
          \A k \in DOMAIN detections :
             (detections[k].confidence = 50
                /\ get_priority(detections[k].label) \in {"HIGH", "MEDIUM"})
             => /\ DictHas(query_cache, build_query(detections[k].label))
                /\ \E i \in DOMAIN searchLog :
                      searchLog[i].query = build_query(detections[k].label)

\* C12 witness: NO-Hardhat at 0.49 is passed over, NO-Safety Vest at 0.50 is searched.
C12_Witness ==
    /\ ragpc = "returned"
    /\ detections = <<Detection("NO-Hardhat", 49), Detection("NO-Safety Vest", 50)>>
    /\ Len(searchLog) = 1
    /\ searchLog[1].query = "high visibility safety vest apparel requirement flagger"
    /\ ragResult # <<>>

RECURSIVE LogQueries(_)
LogQueries(log) == IF log = <<>> THEN <<>> ELSE <<Head(log).query>> \o LogQueries(Tail(log))

\* C13: Sedan at 0.90 triggers no search and NO-Hardhat at 0.90 triggers one;
\* on the five-detection input Sedan is skipped and NO-Hardhat, NO-Safety Vest,
\* Excavator and Ladder each issue one query.
C13_SedanSkippedHardhatSearched ==
    /\ detections = <<Detection("Sedan", 90)>> => searchLog = <<>>
    /\ (detections = <<Detection("NO-Hardhat", 90)>> /\ ragpc \in {"returned", "raised"}) =>
          LogQueries(searchLog) = <<"hard hat head protection requirement construction site">>
    /\ detections = EndToEndInput =>
          \A i \in DOMAIN searchLog :
             searchLog[i].query # "vehicle traffic control construction zone safety"
    /\ (detections = EndToEndInput /\ ragpc = "returned") =>
          LogQueries(searchLog) =
             << "hard hat head protection requirement construction site",
                "high visibility safety vest apparel requirement flagger",
                "excavator heavy equipment operator safety clearance zone",
                "ladder safety requirement portable climbing construction" >>

\* C13 witness: the five-detection input was worked through with four searches.
C13_Witness ==
    /\ ragpc = "returned" /\ detections = EndToEndInput
    /\ Len(searchLog) = 4 /\ Len(query_cache) = 4

(***************************************************************************)
(* Properties of get_priority and build_query (checked under SpecLabel).   *)
(***************************************************************************)
Labelled == detections[1].label

TiersOf(label) == {i \in DOMAIN PRIORITY_MAP : label \in PRIORITY_MAP[i].labels}

\* C14: the three label sets of the priority map are pairwise disjoint, and
\* get_priority gives every label one tier of HIGH, MEDIUM, LOW: the tier of
\* the set that holds it, LOW for a label in none of the sets.
C14_PriorityIsTotal ==
    /\ \A i, j \in DOMAIN PRIORITY_MAP :
          i # j => PRIORITY_MAP[i].labels \cap PRIORITY_MAP[j].labels = {}
    /\ labelResult.called =>
          /\ labelResult.priority \in {"HIGH", "MEDIUM", "LOW"}
          /\ Cardinality(TiersOf(Labelled)) <= 1
          /\ \A i \in TiersOf(Labelled) : labelResult.priority = PRIORITY_MAP[i].level
          /\ TiersOf(Labelled) = {} => labelResult.priority = "LOW"

\* C14 witness: the empty label, in none of the sets, was given LOW.
C14_Witness ==
    labelResult.called /\ Labelled = "" /\ labelResult.priority = "LOW"

\* C15: build_query gives every label a non-empty string: the label's template
\* in the safety query map, or "<label> safety requirement construction site"
\* for a label outside the map; every label of the priority map has a template.
C15_QueryNonEmpty ==
    /\ \A i \in DOMAIN PRIORITY_MAP : PRIORITY_MAP[i].labels \subseteq DOMAIN SAFETY_QUERY_MAP
    /\ \A l \in DOMAIN SAFETY_QUERY_MAP : SAFETY_QUERY_MAP[l] # ""
    /\ labelResult.called =>
          /\ labelResult.query # ""
          /\ Labelled \in DOMAIN SAFETY_QUERY_MAP => labelResult.query = SAFETY_QUERY_MAP[Labelled]
          /\ Labelled \notin DOMAIN SAFETY_QUERY_MAP =>
                labelResult.query = Labelled \o " safety requirement construction site"

\* C15 witness: a label outside the map was given the generic query.
C15_Witness ==
    /\ labelResult.called /\ Labelled = "Crane"
    /\ labelResult.query = "Crane safety requirement construction site"

(***************************************************************************)
(* Properties of the stage graph (checked under Spec).                     *)
(***************************************************************************)
StageOrder ==
    << "process_video", "detect_objects", "retrieve_regulations", "assess_risk",
       "generate_report", "send_alerts" >>

StageIndex(stage) == CHOOSE i \in DOMAIN StageOrder : StageOrder[i] = stage

\* Each stage started and ended, in the fixed order.
StageEvents ==
    [i \in 1..12 |-> IF i % 2 = 1 THEN [stage |-> StageOrder[(i + 1) \div 2], ev |-> "start"]
                     ELSE [stage |-> StageOrder[i \div 2], ev |-> "end"]]

IsPrefixOf(a, b) == Len(a) <= Len(b) /\ SubSeq(b, 1, Len(a)) = a

RunIsOver == pc \in {"END", "failed"} /\ error # "stream"

\* C16 as stated: in every run the six stages execute in the fixed order, each
\* exactly once.
C16_Original ==
    RunIsOver => stageLog = StageEvents

\* C16 amended: the stages execute in the fixed order, each at most once, a
\* stage starting only after the preceding one has ended and no two active at
\* once; a run that ends without an exception has executed all six, and a run
\* that a stage's exception ends has executed the stages up to that one.
C16_StagesInOrder ==
    /\ IsPrefixOf(stageLog, StageEvents)
    /\ pc = "END" => stageLog = StageEvents
    /\ (pc = "failed" /\ error # "stream") =>
          /\ stageLog # <<>>
          /\ stageLog[Len(stageLog)] = [stage |-> error, ev |-> "start"]
    /\ pc \in {StageOrder[i] : i \in DOMAIN StageOrder} =>
          \/ Len(stageLog) = 2 * (StageIndex(pc) - 1)
          \/ /\ pc = "retrieve_regulations" /\ ragpc = "loop"
             /\ Len(stageLog) = 2 * StageIndex(pc) - 1

\* C16 witness: a run that reached the end after the six stages.
C16_Witness ==
    pc = "END" /\ Len(stageLog) = 12 /\ stageLog[12] = [stage |-> "send_alerts", ev |-> "end"]

\* C17: a stage's update is appended to the list fields and replaces the
\* singular fields; a stage changes only the field it returns, the risk
\* assessment written by assess_risk is left as it is by generate_report and
\* send_alerts, and the lists never shrink or reorder.
C17_UpdatesMerged ==
    [][ /\ IsPrefixOf(frames, frames') /\ IsPrefixOf(detections, detections')
        /\ IsPrefixOf(regulations, regulations') /\ IsPrefixOf(alerts_sent, alerts_sent')
        /\ pc \in {"idle", "END", "failed"} =>
              UNCHANGED <<frames, detections, regulations, risk_assessment, final_report,
                          alerts_sent>>
        /\ pc = "process_video" =>
              UNCHANGED <<detections, regulations, risk_assessment, final_report, alerts_sent>>
        /\ pc = "detect_objects" =>
              UNCHANGED <<frames, regulations, risk_assessment, final_report, alerts_sent>>
        /\ pc = "retrieve_regulations" =>
              /\ UNCHANGED <<frames, detections, risk_assessment, final_report, alerts_sent>>
              /\ ragpc' = "returned" => regulations' = regulations \o ragResult'
        /\ pc = "assess_risk" =>
              /\ UNCHANGED <<frames, detections, regulations, final_report, alerts_sent>>
              /\ pc' = "generate_report" => risk_assessment' = riskResult'.value
        /\ pc = "generate_report" =>
              /\ UNCHANGED <<frames, detections, regulations, risk_assessment, alerts_sent>>
              /\ final_report' = "reports/site.mp4_report.docx"
        /\ pc = "send_alerts" =>
              /\ UNCHANGED <<frames, detections, regulations, risk_assessment, final_report>>
              /\ alerts_sent' = alerts_sent \o alertResult'.alerts_sent
      ]_vars

\* C17 witness: a finished run whose assessment is the one the model path of
\* assess_risk produced, with frames, detections and regulations in the state.
C17_Witness ==
    /\ pc = "END" /\ Len(frames) = 2 /\ Len(detections) = 4 /\ regulations # <<>>
    /\ riskResult.path = "model" /\ risk_assessment = riskResult.value
    /\ risk_assessment.risk_score = 60 /\ final_report # ""

\* C18 as stated: the incremental mode yields one pair per stage, the six
\* stages each having run once, in order.
C18_StreamYieldsEachStage ==
    (pc = "failed" /\ error = "stream") => stageLog = StageEvents

\* C19 as stated: run_alert_agent never raises, and returns ['email'] exactly
\* when topic initialization and the publish both succeed, [] otherwise.
C19_AlertAgentNeverRaises ==
    alertResult.called =>
        /\ ~alertResult.raised
        /\ (alertResult.init_ok /\ alertResult.publish_ok) =>
              alertResult.alerts_sent = <<"email">>
        /\ ~(alertResult.init_ok /\ alertResult.publish_ok) =>
              alertResult.alerts_sent = <<>>

RECURSIVE Flatten(_)
Flatten(lists) == IF lists = <<>> THEN <<>> ELSE Head(lists) \o Flatten(Tail(lists))

RECURSIVE IsSubsequence(_, _)
IsSubsequence(a, b) ==
    IF a = <<>> THEN TRUE
    ELSE IF b = <<>> THEN FALSE
    ELSE IF Head(a) = Head(b) THEN IsSubsequence(Tail(a), Tail(b))
    ELSE IsSubsequence(a, Tail(b))

\* C20 as stated: every detection the detector reported for a frame is in the
\* output of detect, whatever its confidence, in the frames' order and in each
\* frame's detection order.
C20_DetectKeepsEveryPrediction ==
    raw_preds # <<>> => IsSubsequence(Flatten(raw_preds), detections)

(***************************************************************************)
(* Properties of empty inputs, the video, and the equipment context.       *)
(***************************************************************************)
DetectEnded ==
    \E i \in DOMAIN stageLog : stageLog[i] = [stage |-> "detect_objects", ev |-> "end"]

NoneQualifies == \A k \in DOMAIN detections : ~Qualifies(detections[k])

\* C21: detect on an empty frame list returns an empty list and calls no
\* detector; retrieve_regulations on an empty detection list, or on one in
\* which no detection qualifies, returns an empty list, calls no search and
\* raises nothing.
C21_EmptyPropagates ==
    /\ (DetectEnded /\ frames = <<>>) =>
          (detections = <<>> /\ vision_log = <<>> /\ raw_preds = <<>>)
    /\ NoneQualifies =>
          /\ searchLog = <<>> /\ regulations_dict = <<>> /\ ragpc # "raised"
          /\ ragResult = <<>> /\ regulations = <<>>
          /\ error # "retrieve_regulations"

\* C21 witness: a detection list in which nothing qualifies went through the
\* retrieval stage.
C21_Witness ==
    /\ ragpc = "returned" /\ pc = "assess_risk"
    /\ detections = <<Detection("Sedan", 72), Detection("NO-Mask", 45)>>
    /\ searchLog = <<>> /\ regulations = <<>>

MachineryDetection(d) ==
    d.label \in {"Excavator", "Wheel Loader", "Machinery", "Dump Truck", "machinery"}

RECURSIVE LabelsOf(_)
LabelsOf(ds) == IF ds = <<>> THEN <<>> ELSE <<Head(ds).label>> \o LabelsOf(Tail(ds))

\* The equipment list an assessment holds.
EquipmentList(a) ==
    IF "equipment_context" \in DOMAIN a THEN a.equipment_context ELSE a.equipment_contex

\* C22 as stated (checked under SpecRisk): for a non-empty detection list the
\* assessment holds the labels of the machinery detections, in detection
\* order, readable as its equipment_context.
C22_EquipmentContextCarried ==
    (AssessDone /\ detections # <<>>) =>
        /\ "equipment_context" \in DOMAIN Assessed
        /\ EquipmentList(Assessed) = LabelsOf(SelectSeq(detections, MachineryDetection))

VideoUnreadable == ~video.probe_ok \/ (video.returncode # 0 /\ video.available = 0)

\* C23 (checked under Spec): when ffprobe fails, or ffmpeg fails having
\* produced no frame, process_video raises, no later stage executes, and no
\* RiskAssessment, report or alert is produced; process_video raises in no
\* other case.
C23_UnreadableVideoIsFatal ==
    /\ (stageLog # <<>> /\ VideoUnreadable) =>
          /\ pc = "failed" /\ error = "process_video"
          /\ stageLog = << [stage |-> "process_video", ev |-> "start"] >>
          /\ frames = <<>> /\ detections = <<>> /\ regulations = <<>>
          /\ vision_log = <<>> /\ searchLog = <<>>
          /\ riskResult.path = "none" /\ requests = <<>>
          /\ final_report = "" /\ alerts_sent = <<>> /\ ~alertResult.called
    /\ error = "process_video" => VideoUnreadable

\* C23 witness: ffprobe succeeded and ffmpeg failed with no frame read.
C23_Witness ==
    /\ pc = "failed" /\ error = "process_video"
    /\ video.probe_ok /\ video.returncode = 1 /\ video.available = 0

(***************************************************************************)
(* More properties of retrieve_regulations (checked under SpecRag).        *)
(***************************************************************************)
\* The passages the call met, in the order it met them: the qualifying
\* detections in input order, each query's result list in rank order.
RECURSIVE Encountered(_)
Encountered(k) ==
    IF k > Len(detections) THEN <<>>
    ELSE (IF Qualifies(detections[k])
          THEN DictGet(query_cache, build_query(detections[k].label))
          ELSE <<>>) \o Encountered(k + 1)

\* The positions of Encountered(1) whose dedup key was not met before.
FirstOccurrences(enc) ==
    {j \in DOMAIN enc :
        \A h \in 1..(j - 1) : First200(PayloadText(enc[h])) # First200(PayloadText(enc[j]))}

\* C24: the returned Regulations are the first occurrences of their dedup
\* keys, in order of first occurrence, each with the text and citation of the
\* first passage met with that key.
C24_FirstOccurrenceOrder ==
    (ragpc = "returned" /\ detections # <<>>) =>
        LET enc == Encountered(1)
            firsts == FirstOccurrences(enc)
        IN /\ Len(ragResult) = Cardinality(firsts)
           /\ \A j \in firsts :
                 LET i == Cardinality({h \in firsts : h <= j})
                 IN /\ ragResult[i].text = PayloadText(enc[j])
                    /\ ragResult[i].citation = PayloadSource(enc[j])
                    /\ ragResult[i].source = "CAL_OSHA"

\* C24 witness: one query returned TextA1 and then TextA2, which share their
\* first 200 characters; the Regulation kept is the first one's.
C24_Witness ==
    /\ ragpc = "returned" /\ Len(query_cache) = 1
    /\ query_cache[1].value = <<P1, P2>>
    /\ ragResult = <<[citation |-> "1926.100", text |-> TextA1, source |-> "CAL_OSHA"]>>

HighLabels == {"NO-Hardhat", "NO-Mask", "NO-Safety Vest"}
MediumLabels == {"Excavator", "Wheel Loader", "Machinery", "Dump Truck", "Ladder"}

\* C28: every violation label is HIGH tier; no search is issued for a
\* detection whose label is in neither the HIGH nor the MEDIUM set, at any
\* confidence: no search has limit 1 and every query sent is a template of a
\* HIGH or MEDIUM label, never the generic query.
C28_LowTierNeverSearched ==
    /\ \A l \in HighLabels : get_priority(l) = "HIGH"
    /\ \A i \in DOMAIN searchLog :
          /\ searchLog[i].limit \in {3, 5}
          /\ \E l \in HighLabels \cup MediumLabels : searchLog[i].query = SAFETY_QUERY_MAP[l]
          /\ \A k \in DOMAIN detections :
                detections[k].label \notin HighLabels \cup MediumLabels =>
                   /\ searchLog[i].query # build_query(detections[k].label)
                   /\ searchLog[i].query # detections[k].label \o " safety requirement construction site"
    /\ (\A k \in DOMAIN detections : detections[k].label \notin HighLabels \cup MediumLabels) =>
          searchLog = <<>>

\* C28 witness: Crane at 0.90 was passed over, NO-Hardhat after it was searched.
C28_Witness ==
    /\ ragpc = "returned"
    /\ detections = <<Detection("Crane", 90), Detection("NO-Hardhat", 90)>>
    /\ Len(searchLog) = 1 /\ searchLog[1].limit = 5

\* C29: no two labels that can reach the search step share a query string
\* while having different tiers, so the result set a detection takes from the
\* cache was fetched with that detection's own budget and holds at most that
\* many passages.
C29_CacheMatchesBudget ==
    /\ \A l1, l2 \in HighLabels \cup MediumLabels :
          build_query(l1) = build_query(l2) => get_priority(l1) = get_priority(l2)
    /\ \A k \in DOMAIN detections :
          (Qualifies(detections[k]) /\ DictHas(query_cache, build_query(detections[k].label))) =>
             /\ Len(DictGet(query_cache, build_query(detections[k].label)))
                   <= Budget(get_priority(detections[k].label))
             /\ \A i \in DOMAIN searchLog :
                   searchLog[i].query = build_query(detections[k].label) =>
                      searchLog[i].limit = Budget(get_priority(detections[k].label))

\* C29 witness: the second Excavator took from the cache the three passages
\* the first one's search fetched with limit 3.
C29_Witness ==
    /\ ragpc = "returned"
    /\ detections = <<Detection("Excavator", 78), Detection("Excavator", 78)>>
    /\ Len(searchLog) = 1 /\ searchLog[1].limit = 3
    /\ Len(query_cache[1].value) = 3

(***************************************************************************)
(* Calls sharing a retriever (checked under SpecRagRuns).                  *)
(***************************************************************************)
\* The dict a call builds when each qualifying detection takes the result set
\* the call itself cached for its query.
RECURSIVE FromOwnCache(_, _, _)
FromOwnCache(c, i, dict) ==
    IF i > Len(calls[c].context) THEN dict
    ELSE FromOwnCache(c, i + 1,
                      IF Qualifies(calls[c].context[i])
                      THEN AddPoints(dict, DictGet(calls[c].query_cache,
                                                   build_query(calls[c].context[i].label)))
                      ELSE dict)

\* C25: the query cache and the dedup dict belong to one call: every call
\* searches each of its own qualifying queries itself, exactly once, whatever
\* other calls on the retriever have searched, and what it returns is built
\* from the result sets of its own searches only.
C25_CachePerCall ==
    \A c \in DOMAIN calls :
       /\ \A i, j \in DOMAIN calls[c].log : i # j => calls[c].log[i].query # calls[c].log[j].query
       /\ \A i \in DOMAIN calls[c].query_cache :
             \E j \in DOMAIN calls[c].log : calls[c].log[j].query = calls[c].query_cache[i].key
       /\ calls[c].pc = "returned" =>
             /\ \A k \in DOMAIN calls[c].context :
                   Qualifies(calls[c].context[k]) =>
                      Cardinality({i \in DOMAIN calls[c].log :
                                     calls[c].log[i].query
                                       = build_query(calls[c].context[k].label)}) = 1
             /\ Len(calls[c].query_cache) = Len(calls[c].log)
             /\ calls[c].result = DictValues(FromOwnCache(c, 1, <<>>))

\* C25 witness: two calls given the same detection each searched once, and the
\* index answering them differently, returned different lists.
C25_Witness ==
    /\ calls[1].pc = "returned" /\ calls[2].pc = "returned"
    /\ calls[1].context = <<Detection("NO-Hardhat", 90)>>
    /\ calls[2].context = calls[1].context
    /\ Len(calls[1].log) = 1 /\ Len(calls[2].log) = 1
    /\ calls[1].result = <<>> /\ calls[2].result # <<>>

(***************************************************************************)
(* Termination (checked under SpecHang).                                   *)
(***************************************************************************)
\* C26 as stated: also when an external call never returns, the run
\* eventually terminates.
C26_RunTerminates == <>(pc \in {"END", "failed"})

(***************************************************************************)
(* Properties of VisionDetector.detect (checked under SpecVision).         *)
(***************************************************************************)
ConfidentEnough(p) == p.confidence >= 30
NamedPrediction(p) == p.label # ""

\* What a frame contributes: the primary detector's detections if it yielded
\* any, else the fallback model's, nothing if that failed too.
ExpectedOfFrame(e) ==
    LET primary == IF e.rf.raised THEN <<>> ELSE SelectSeq(e.rf.predictions, ConfidentEnough)
    IN IF primary # <<>> THEN primary
       ELSE IF e.cv.raised THEN <<>>
       ELSE SelectSeq(e.cv.predictions, NamedPrediction)

RECURSIVE ExpectedOfFrames(_)
ExpectedOfFrames(log) ==
    IF log = <<>> THEN <<>> ELSE ExpectedOfFrame(Head(log)) \o ExpectedOfFrames(Tail(log))

\* C27: detect never raises; on each frame the fallback model is invoked
\* exactly when the primary detector yielded no detection for the frame (also
\* when it failed); a frame on which both fail contributes nothing, and the
\* other frames' detections are what they are without it.
C27_PerFrameFallback ==
    DetectEnded =>
        /\ pc = "retrieve_regulations" /\ error = ""
        /\ Len(vision_log) = Len(frames)
        /\ \A i \in DOMAIN vision_log :
              vision_log[i].cv_called <=>
                 (vision_log[i].rf.raised
                    \/ \A j \in DOMAIN vision_log[i].rf.predictions :
                          vision_log[i].rf.predictions[j].confidence < 30)
        /\ detections = ExpectedOfFrames(vision_log)

\* C27 witness: both detectors failed on the first frame; the second frame's
\* detections are those of the primary detector.
C27_Witness ==
    /\ DetectEnded /\ Len(frames) = 2
    /\ vision_log[1].rf.raised /\ vision_log[1].cv.raised /\ vision_log[1].cv_called
    /\ ~vision_log[2].cv_called
    /\ detections = <<Detection("NO-Hardhat", 91), Detection("Excavator", 78)>>

(***************************************************************************)
(* Properties of BedrockModel.get_instance (checked under SpecSingleton).  *)
(***************************************************************************)
\* C30 as stated: under any interleaving of get_instance calls at most one
\* BedrockModel is constructed and every caller receives that same instance.
C30_OneInstance ==
    /\ constructed <= 1
    /\ \A t, u \in DOMAIN caller :
          (caller[t].pc = "done" /\ caller[u].pc = "done") => caller[t].ret = caller[u].ret

====
